---- MODULE Spec2Model ----
(***************************************************************************)
(* Model of thermal-controller-iot.py: the BME280 sensor wrapper with its  *)
(* emulation fallback (ThermalSensor), the SQLite measurement store        *)
(* (SimpleDatabase), the background sampling thread and the request        *)
(* handlers of SensorMonitor.                                              *)
(*                                                                         *)
(* Temperatures, humidities and pressures are integers in hundredths of    *)
(* their unit (22.0 C is 2200).  A wall-clock instant is a record          *)
(* [sec, us]: seconds since the start of the month and microseconds.       *)
(* Stored timestamps are the isoformat() strings, as sequences of          *)
(* character codes, and are compared as SQLite compares TEXT.              *)
(***************************************************************************)
EXTENDS Integers, Sequences, FiniteSets

(* ---- bounds of the model ---- *)
MaxThreads == 2
MaxHandlers == 1
MaxRows == 3
MaxHours == 3

(* ---- program constants ---- *)
HourSeconds == 3600

Threads == 1..MaxThreads
Handlers == 1..MaxHandlers

VARIABLES
    phase,              \* "import" | "construct" | "up" | "crashed"
    BME280_AVAILABLE,   \* module flag set by the guarded import
    config,             \* SensorMonitor.config['sensor']
    sensor,             \* ThermalSensor.sensor: "None" or "BME280"
    running,            \* SensorMonitor.running
    pc,                 \* position of each sampling thread
    reading,            \* local variable reading of each sampling thread
    hpc,                \* position of each request handler
    hreading,           \* local variable reading of api_current
    conn,               \* the row each handler's connection has inserted
                        \* and not yet committed
    db,                 \* table measurements, in rowid order
    now,                \* wall clock read by datetime.now()
    ret                 \* what the step just taken returned: the rows of a
                        \* store query, the JSON body of a handler

vars == <<phase, BME280_AVAILABLE, config, sensor, running, pc, reading,
          hpc, hreading, conn, db, now, ret>>

(* ---- environment: wall clock, configuration, sensor values ---- *)

\* Instants the wall clock takes: 01:00:00, 02:00:00, 02:25:00.500000 and
\* 02:30:00 of day 1.
ClockValues ==
    { [sec |-> 3600, us |-> 0], [sec |-> 7200, us |-> 0],
      [sec |-> 8700, us |-> 500000], [sec |-> 9000, us |-> 0] }

StartInstant == [sec |-> 3600, us |-> 0]

TimeLess(a, b) == a.sec < b.sec \/ (a.sec = b.sec /\ a.us < b.us)

\* Values of sensor.read_interval a configuration file supplies.
Intervals == {10, 45}

DefaultSensorConfig ==
    [ read_interval |-> 10, temperature_offset |-> 0,
      humidity_offset |-> 0, pressure_offset |-> 0 ]

SensorConfigs ==
    { [DefaultSensorConfig EXCEPT !.read_interval = i] : i \in Intervals }

\* Raw register values of the BME280.
RawSamples ==
    { [temperature |-> 2150, humidity |-> 4000, pressure |-> 101000] }

\* random.uniform draws of _read_mock, in hundredths.
MockJitters ==
    { [temperature |-> 50, humidity |-> -500, pressure |-> 1000] }

\* Every hour of the day, on the hour.
HourInstants == { [sec |-> h * 3600, us |-> 0] : h \in 0..23 }

\* Every value the temperature draw random.uniform(-0.5, 0.5) leaves after
\* round(..., 2), in hundredths, with one draw of humidity and pressure.
MockJitterRange ==
    { [temperature |-> d, humidity |-> -500, pressure |-> 1000] :
        d \in -50..50 }

\* Calibration offsets a configuration file supplies, and the
\* configurations with each combination of them.
OffsetValues == {-150, 0, 25}

OffsetConfigs ==
    { [ read_interval |-> 10, temperature_offset |-> a,
        humidity_offset |-> b, pressure_offset |-> c ] :
        a \in OffsetValues, b \in OffsetValues, c \in OffsetValues }

\* Register values of the BME280 over its range.
RawRange ==
    { [temperature |-> t, humidity |-> h, pressure |-> p] :
        t \in {-1000, 2150}, h \in {0, 4000}, p \in {95000, 101000} }

(* ---- SensorReading ---- *)

Unset == [kind |-> "unset"]
NoReading == [kind |-> "None"]

SensorReading(t, temp, hum, pres) ==
    [ kind |-> "SensorReading", timestamp |-> t, temperature |-> temp,
      humidity |-> hum, pressure |-> pres ]

Truthy(r) == r.kind = "SensorReading"

(* ---- datetime.isoformat and TEXT comparison ---- *)

Digits2(n) == << 48 + ((n \div 10) % 10), 48 + (n % 10) >>

Digits6(n) ==
    << 48 + ((n \div 100000) % 10), 48 + ((n \div 10000) % 10),
       48 + ((n \div 1000) % 10), 48 + ((n \div 100) % 10),
       48 + ((n \div 10) % 10), 48 + (n % 10) >>

\* "DDTHH:MM:SS" and, only when the microsecond is not 0, ".ffffff".  The
\* year and month, the same in every string, are left out.
IsoFormat(t) ==
    Digits2(1 + (t.sec \div 86400)) \o <<84>>
      \o Digits2((t.sec \div 3600) % 24) \o <<58>>
      \o Digits2((t.sec \div 60) % 60) \o <<58>>
      \o Digits2(t.sec % 60)
      \o (IF t.us = 0 THEN <<>> ELSE <<46>> \o Digits6(t.us))

\* SQLite's BINARY collation of TEXT: memcmp, the first differing character
\* decides, and a proper prefix sorts first.
TextLess(a, b) ==
    LET n == IF Len(a) < Len(b) THEN Len(a) ELSE Len(b)
        d == { i \in 1..n : a[i] # b[i] }
    IN IF d = {} THEN Len(a) < Len(b)
       ELSE LET k == CHOOSE i \in d : \A j \in d : i <= j IN a[k] < b[k]

(* ---- SimpleDatabase ---- *)

Row(id, ts, temp, hum, pres) ==
    [ id |-> id, timestamp |-> ts, temperature |-> temp,
      humidity |-> hum, pressure |-> pres ]

\* A connection with no uncommitted row.
NoRow == [id |-> 0]

\* An INSERT that gives every row the rowid 1.
InsertedRowSameId(temp, hum, pres) == Row(1, IsoFormat(now), temp, hum, pres)

\* INSERT with timestamp datetime.now().isoformat(); the INTEGER PRIMARY KEY
\* is one more than the largest rowid.
InsertedRow(temp, hum, pres) ==
    Row(Len(db) + 1, IsoFormat(now), temp, hum, pres)

Inserted(temp, hum, pres) == Append(db, InsertedRow(temp, hum, pres))

\* LIMIT k: the first k rows; a negative LIMIT is no limit.
Take(s, k) == IF k < 0 \/ k >= Len(s) THEN s ELSE SubSeq(s, 1, k)

\* The rows a SELECT may put first among those numbered in S: the ones no
\* other row must precede.  Rows with equal timestamps come in any order, the
\* statement has no second sort key.
Firsts(S, descending) ==
    { i \in S : \A j \in S :
        IF descending THEN ~TextLess(db[i].timestamp, db[j].timestamp)
        ELSE ~TextLess(db[j].timestamp, db[i].timestamp) }

\* The results of SELECT * over the rows numbered in S with ORDER BY
\* timestamp DESC (descending) or ASC.
RECURSIVE OrderBy(_, _)
OrderBy(S, descending) ==
    IF S = {} THEN { <<>> }
    ELSE UNION { { <<db[i]>> \o s : s \in OrderBy(S \ {i}, descending) } :
                 i \in Firsts(S, descending) }

\* The query with ORDER BY timestamp ASC.
GetRecentRowsAscending(limit) ==
    { Take(s, limit) : s \in OrderBy(1..Len(db), FALSE) }

\* SELECT * ... ORDER BY timestamp DESC LIMIT ?, for a limit >= 0.
GetRecentRows(limit) == { Take(s, limit) : s \in OrderBy(1..Len(db), TRUE) }

\* WHERE timestamp > ?
Matching(since) == { i \in 1..Len(db) : TextLess(since, db[i].timestamp) }

\* hour_ago = datetime.now().timestamp() - 3600, as an isoformat string.
HourAgo == IsoFormat([sec |-> now.sec - HourSeconds, us |-> now.us])

\* SELECT * ... WHERE timestamp > ? ORDER BY timestamp ASC
GetLastHourRows == OrderBy(Matching(HourAgo), FALSE)

NoCall == [op |-> "none"]

\* An exception that leaves a handler: Flask answers 500 without a body of
\* the handler.
ServerError(op) == [op |-> op, success |-> FALSE, status |-> 500]

(* ---- ThermalSensor ---- *)

\* An emulation with swings of 5 degrees.
ReadMockWide(t, j) ==
    LET hour == (t.sec \div 3600) % 24
        temp_variation == IF 2 <= hour /\ hour <= 6 THEN -500
                          ELSE IF 12 <= hour /\ hour <= 16 THEN 500
                          ELSE 0
    IN SensorReading(t, 2200 + temp_variation + j.temperature,
                     4500 + j.humidity, 101325 + j.pressure)

\* _read_mock: base 22.0, -3.0 from 2 to 6 o'clock, +3.0 from 12 to 16
\* o'clock, plus the jitter j.
ReadMock(t, j) ==
    LET hour == (t.sec \div 3600) % 24
        base_temp == 2200
        temp_variation == IF 2 <= hour /\ hour <= 6 THEN -300
                          ELSE IF 12 <= hour /\ hour <= 16 THEN 300
                          ELSE 0
    IN SensorReading(t, base_temp + temp_variation + j.temperature,
                     4500 + j.humidity, 101325 + j.pressure)

\* A read() that adds the temperature offset to the humidity.
ReadHardwareCrossed(t, raw) ==
    SensorReading(t, raw.temperature + config.temperature_offset,
                  raw.humidity + config.temperature_offset,
                  raw.pressure + config.pressure_offset)

\* The hardware branch of read() when no register access raises: each field
\* is the raw value plus its configured offset.
ReadHardware(t, raw) ==
    SensorReading(t, raw.temperature + config.temperature_offset,
                  raw.humidity + config.humidity_offset,
                  raw.pressure + config.pressure_offset)

\* Outcomes of the hardware branch of read(): a reading, or None when a
\* register access raised.
HardwareReadOutcomes ==
    { ReadHardware(now, raw) : raw \in RawSamples } \cup {NoReading}

\* An is_connected() that reports the emulation as connected.
is_connected_emulation_true(probe_raises) ==
    IF sensor = "None" THEN TRUE ELSE ~probe_raises

\* read() called on its own, without a handle: return self._read_mock()
read_emulated(j) ==
    /\ phase = "up"
    /\ sensor = "None"
    /\ ret' = [op |-> "read", value |-> ReadMock(now, j)]
    /\ UNCHANGED <<phase, BME280_AVAILABLE, config, sensor, running, pc,
                   reading, hpc, hreading, conn, db, now>>

\* read() called on its own, with a handle: the registers raw plus the
\* offsets, or None when an access raises.
read_hardware(raw, raises) ==
    /\ phase = "up"
    /\ sensor = "BME280"
    /\ ret' = [op |-> "read", raw |-> raw,
               value |-> IF raises THEN NoReading ELSE ReadHardware(now, raw)]
    /\ UNCHANGED <<phase, BME280_AVAILABLE, config, sensor, running, pc,
                   reading, hpc, hreading, conn, db, now>>

\* is_connected(): False without a handle, else whether the access to
\* sensor.temperature went through.
is_connected(probe_raises) ==
    IF sensor = "None" THEN FALSE ELSE ~probe_raises

\* Threads and handlers inside a transaction with the BME280.
BusUsers ==
    { <<"thread", t>> : t \in { u \in Threads : pc[u] = "hw" } }
      \cup { <<"handler", h>> : h \in
               { g \in Handlers : hpc[g] \in {"cur_hw", "cur_probe_hw", "health_hw"} } }

(* ---- startup ---- *)

Init ==
    /\ phase = "import"
    /\ BME280_AVAILABLE = FALSE
    /\ config = DefaultSensorConfig
    /\ sensor = "None"
    /\ running = FALSE
    /\ pc = [t \in Threads |-> "unborn"]
    /\ reading = [t \in Threads |-> Unset]
    /\ hpc = [h \in Handlers |-> "idle"]
    /\ hreading = [h \in Handlers |-> Unset]
    /\ conn = [h \in Handlers |-> NoRow]
    /\ db = <<>>
    /\ now = StartInstant
    /\ ret = NoCall

\* The guarded import at the top of the file: only NotImplementedError is
\* caught; any other exception of the import ends the program.
ImportOutcomes == {"ok", "NotImplementedError", "ImportError"}

import_bme280(outcome) ==
    /\ phase = "import"
    /\ phase' = IF outcome = "ImportError" THEN "crashed" ELSE "construct"
    /\ BME280_AVAILABLE' = (outcome = "ok")
    /\ ret' = NoCall
    /\ UNCHANGED <<config, sensor, running, pc, reading, hpc, hreading, conn, db,
                   now>>

\* What is found at the --config path: no file, a file yaml.safe_load
\* rejects, a YAML document without the section 'sensor', or a document with
\* it; sensor.read_interval is whatever number the file gives.
FileIntervals == {-5, 0, 10, 45}

MissingFile == [kind |-> "missing"]

ConfigFiles ==
    { MissingFile, [kind |-> "malformed"], [kind |-> "no_sensor_section"] }
      \cup { [kind |-> "document",
              sensor |-> [DefaultSensorConfig EXCEPT !.read_interval = i]] :
              i \in FileIntervals }

_default_config == [has_sensor |-> TRUE, sensor |-> DefaultSensorConfig]

\* load_config: the defaults when open or yaml.safe_load raises, else the
\* document as it is.
load_config(file) ==
    IF file.kind \in {"missing", "malformed"} THEN _default_config
    ELSE IF file.kind = "no_sensor_section"
         THEN [has_sensor |-> FALSE, sensor |-> DefaultSensorConfig]
         ELSE [has_sensor |-> TRUE, sensor |-> file.sensor]

\* SensorMonitor.__init__: load_config, ThermalSensor (config['sensor'] raises
\* KeyError or TypeError without the section; _init_sensor, whose every
\* exception leaves sensor None), SimpleDatabase, create_web_app.
SensorMonitor_init(file, connects) ==
    /\ phase = "construct"
    /\ IF load_config(file).has_sensor
       THEN /\ phase' = "up"
            /\ config' = load_config(file).sensor
            /\ sensor' = IF BME280_AVAILABLE /\ connects THEN "BME280"
                          ELSE "None"
       ELSE /\ phase' = "crashed"
            /\ UNCHANGED <<config, sensor>>
    /\ running' = FALSE
    /\ ret' = NoCall
    /\ UNCHANGED <<BME280_AVAILABLE, pc, reading, hpc, hreading, conn, db, now>>

(* ---- SensorMonitor.start, stop and the sampling thread ---- *)

Unborn == { t \in Threads : pc[t] = "unborn" }

\* start(): sets running and starts a new daemon thread.
start ==
    /\ phase = "up"
    /\ Unborn # {}
    /\ running' = TRUE
    /\ LET t == CHOOSE u \in Unborn : \A v \in Unborn : u <= v
       IN pc' = [pc EXCEPT ![t] = "while"]
    /\ ret' = NoCall
    /\ UNCHANGED <<phase, BME280_AVAILABLE, config, sensor, reading, hpc,
                   hreading, conn, db, now>>

stop ==
    /\ phase = "up"
    /\ running' = FALSE
    /\ ret' = NoCall
    /\ UNCHANGED <<phase, BME280_AVAILABLE, config, sensor, pc, reading, hpc,
                   hreading, conn, db, now>>

\* A loop that never tests the flag (while True).
thread_while_unconditional(t) ==
    /\ pc[t] = "while"
    /\ pc' = [pc EXCEPT ![t] = "read"]
    /\ ret' = NoCall
    /\ UNCHANGED <<phase, BME280_AVAILABLE, config, sensor, running, reading,
                   hpc, hreading, conn, db, now>>

\* while self.running: the thread function returns, and its locals go, when
\* the flag is found false.
thread_while(t) ==
    /\ pc[t] = "while"
    /\ pc' = [pc EXCEPT ![t] = IF running THEN "read" ELSE "done"]
    /\ reading' = IF running THEN reading ELSE [reading EXCEPT ![t] = Unset]
    /\ ret' = NoCall
    /\ UNCHANGED <<phase, BME280_AVAILABLE, config, sensor, running, hpc,
                   hreading, conn, db, now>>

\* reading = self.sensor.read(): the emulated reading at once, or the start
\* of the transaction with the BME280.  if reading: logger.debug(...)
thread_read(t) ==
    /\ pc[t] = "read"
    /\ IF sensor = "None"
       THEN /\ \E j \in MockJitters :
                 reading' = [reading EXCEPT ![t] = ReadMock(now, j)]
            /\ pc' = [pc EXCEPT ![t] = "sleep"]
       ELSE /\ pc' = [pc EXCEPT ![t] = "hw"]
            /\ UNCHANGED reading
    /\ ret' = NoCall
    /\ UNCHANGED <<phase, BME280_AVAILABLE, config, sensor, running, hpc,
                   hreading, conn, db, now>>

\* A read() whose exception is not caught and ends the thread.
thread_read_end_fatal(t) ==
    /\ pc[t] = "hw"
    /\ \E r \in HardwareReadOutcomes :
         /\ reading' = [reading EXCEPT ![t] = r]
         /\ pc' = [pc EXCEPT ![t] = IF Truthy(r) THEN "sleep" ELSE "done"]
    /\ ret' = NoCall
    /\ UNCHANGED <<phase, BME280_AVAILABLE, config, sensor, running, hpc,
                   hreading, conn, db, now>>

\* The transaction ends: read() returns the reading, or None after logging
\* the exception.  if reading: logger.debug(...), then time.sleep begins.
thread_read_end(t) ==
    /\ pc[t] = "hw"
    /\ \E r \in HardwareReadOutcomes :
         reading' = [reading EXCEPT ![t] = r]
    /\ pc' = [pc EXCEPT ![t] = "sleep"]
    /\ ret' = NoCall
    /\ UNCHANGED <<phase, BME280_AVAILABLE, config, sensor, running, hpc,
                   hreading, conn, db, now>>

\* time.sleep(read_interval) returns.
thread_sleep(t) ==
    /\ pc[t] = "sleep"
    /\ pc' = [pc EXCEPT ![t] = "while"]
    /\ ret' = NoCall
    /\ UNCHANGED <<phase, BME280_AVAILABLE, config, sensor, running, reading,
                   hpc, hreading, conn, db, now>>

(* ---- request handlers ---- *)

\* /api/current: reading = self.sensor.read()
api_current(h) ==
    /\ phase = "up"
    /\ hpc[h] = "idle"
    /\ IF sensor = "None"
       THEN /\ \E j \in MockJitters :
                 hreading' = [hreading EXCEPT ![h] = ReadMock(now, j)]
            /\ hpc' = [hpc EXCEPT ![h] = "cur_save"]
       ELSE /\ hpc' = [hpc EXCEPT ![h] = "cur_hw"]
            /\ UNCHANGED hreading
    /\ ret' = NoCall
    /\ UNCHANGED <<phase, BME280_AVAILABLE, config, sensor, running, pc,
                   reading, conn, db, now>>

api_current_read_end(h) ==
    /\ hpc[h] = "cur_hw"
    /\ \E r \in HardwareReadOutcomes :
         hreading' = [hreading EXCEPT ![h] = r]
    /\ hpc' = [hpc EXCEPT ![h] = "cur_save"]
    /\ ret' = NoCall
    /\ UNCHANGED <<phase, BME280_AVAILABLE, config, sensor, running, pc,
                   reading, conn, db, now>>

\* A handler that never saves the reading.
api_current_save_skipped(h, raises) ==
    /\ hpc[h] = "cur_save"
    /\ hpc' = [hpc EXCEPT ![h] = "cur_probe"]
    /\ ret' = NoCall
    /\ UNCHANGED <<phase, BME280_AVAILABLE, config, sensor, running, pc,
                   reading, hreading, conn, db, now>>

\* if reading: self.db.save_reading(temperature, humidity, pressure), up to
\* the INSERT: the row, stamped datetime.now(), is in the handler's
\* connection, which holds the write lock of the file.  When raises, connect
\* or execute raises sqlite3.Error (disk full, database is locked) and the
\* exception leaves the handler.
api_current_save(h, raises) ==
    /\ hpc[h] = "cur_save"
    /\ IF ~Truthy(hreading[h])
       THEN /\ hpc' = [hpc EXCEPT ![h] = "cur_probe"]
            /\ ret' = NoCall
            /\ UNCHANGED <<hreading, conn>>
       ELSE IF raises
            THEN /\ hpc' = [hpc EXCEPT ![h] = "idle"]
                 /\ hreading' = [hreading EXCEPT ![h] = Unset]
                 /\ ret' = ServerError("api_current")
                 /\ UNCHANGED conn
            ELSE /\ \A g \in Handlers : conn[g] = NoRow
                 /\ Len(db) < MaxRows
                 /\ conn' = [conn EXCEPT ![h] =
                               InsertedRow(hreading[h].temperature,
                                           hreading[h].humidity,
                                           hreading[h].pressure)]
                 /\ hpc' = [hpc EXCEPT ![h] = "cur_commit"]
                 /\ ret' = NoCall
                 /\ UNCHANGED hreading
    /\ UNCHANGED <<phase, BME280_AVAILABLE, config, sensor, running, pc,
                   reading, db, now>>

\* A commit that raises after the row has reached the file.
api_current_commit_torn(h, raises) ==
    /\ hpc[h] = "cur_commit"
    /\ db' = Append(db, conn[h])
    /\ conn' = [conn EXCEPT ![h] = NoRow]
    /\ IF raises
       THEN /\ hpc' = [hpc EXCEPT ![h] = "idle"]
            /\ hreading' = [hreading EXCEPT ![h] = Unset]
            /\ ret' = ServerError("api_current")
       ELSE /\ hpc' = [hpc EXCEPT ![h] = "cur_probe"]
            /\ ret' = NoCall
            /\ UNCHANGED hreading
    /\ UNCHANGED <<phase, BME280_AVAILABLE, config, sensor, running, pc,
                   reading, now>>

\* conn.commit(); conn.close(): the row becomes part of the table.  When
\* raises, commit raises, the connection is dropped with its transaction
\* rolled back and the exception leaves the handler.
api_current_commit(h, raises) ==
    /\ hpc[h] = "cur_commit"
    /\ conn' = [conn EXCEPT ![h] = NoRow]
    /\ IF raises
       THEN /\ hpc' = [hpc EXCEPT ![h] = "idle"]
            /\ hreading' = [hreading EXCEPT ![h] = Unset]
            /\ ret' = ServerError("api_current")
            /\ UNCHANGED db
       ELSE /\ db' = Append(db, conn[h])
            /\ hpc' = [hpc EXCEPT ![h] = "cur_probe"]
            /\ ret' = NoCall
            /\ UNCHANGED hreading
    /\ UNCHANGED <<phase, BME280_AVAILABLE, config, sensor, running, pc,
                   reading, now>>

CurrentBody(h, connected) ==
    [ op |-> "api_current", success |-> TRUE,
      sensor_connected |-> connected, stats |-> hreading[h] ]

\* 'sensor_connected': self.sensor.is_connected(): False at once without a
\* handle, else a register access; then the body is returned.
api_current_probe(h) ==
    /\ hpc[h] = "cur_probe"
    /\ IF sensor = "None"
       THEN /\ ret' = CurrentBody(h, is_connected(FALSE))
            /\ hpc' = [hpc EXCEPT ![h] = "idle"]
            /\ hreading' = [hreading EXCEPT ![h] = Unset]
       ELSE /\ hpc' = [hpc EXCEPT ![h] = "cur_probe_hw"]
            /\ ret' = NoCall
            /\ UNCHANGED hreading
    /\ UNCHANGED <<phase, BME280_AVAILABLE, config, sensor, running, pc,
                   reading, conn, db, now>>

api_current_probe_end(h) ==
    /\ hpc[h] = "cur_probe_hw"
    /\ \E probe_raises \in BOOLEAN :
         ret' = CurrentBody(h, is_connected(probe_raises))
    /\ hpc' = [hpc EXCEPT ![h] = "idle"]
    /\ hreading' = [hreading EXCEPT ![h] = Unset]
    /\ UNCHANGED <<phase, BME280_AVAILABLE, config, sensor, running, pc,
                   reading, conn, db, now>>

HealthBody(connected) ==
    [ op |-> "api_health", status |-> "ok",
      sensor_connected |-> connected, timestamp |-> IsoFormat(now) ]

\* /api/health
api_health(h) ==
    /\ phase = "up"
    /\ hpc[h] = "idle"
    /\ IF sensor = "None"
       THEN /\ ret' = HealthBody(is_connected(FALSE))
            /\ UNCHANGED hpc
       ELSE /\ hpc' = [hpc EXCEPT ![h] = "health_hw"]
            /\ ret' = NoCall
    /\ UNCHANGED <<phase, BME280_AVAILABLE, config, sensor, running, pc,
                   reading, hreading, conn, db, now>>

api_health_probe_end(h) ==
    /\ hpc[h] = "health_hw"
    /\ \E probe_raises \in BOOLEAN :
         ret' = HealthBody(is_connected(probe_raises))
    /\ hpc' = [hpc EXCEPT ![h] = "idle"]
    /\ UNCHANGED <<phase, BME280_AVAILABLE, config, sensor, running, pc,
                   reading, hreading, conn, db, now>>

(* ---- direct calls of the store and /api/history ---- *)

\* save_reading(temp, humidity, pressure); it returns None.
save_reading(temp, humidity, pressure) ==
    /\ phase = "up"
    /\ Len(db) < MaxRows
    /\ db' = Inserted(temp, humidity, pressure)
    /\ ret' = [op |-> "save_reading"]
    /\ UNCHANGED <<phase, BME280_AVAILABLE, config, sensor, running, pc,
                   reading, hpc, hreading, conn, now>>

get_recent(limit) ==
    /\ phase = "up"
    /\ \E rows \in GetRecentRows(limit) :
         ret' = [op |-> "get_recent", limit |-> limit, rows |-> rows]
    /\ UNCHANGED <<phase, BME280_AVAILABLE, config, sensor, running, pc,
                   reading, hpc, hreading, conn, db, now>>

get_last_hour ==
    /\ phase = "up"
    /\ \E rows \in GetLastHourRows :
         ret' = [op |-> "get_last_hour", rows |-> rows]
    /\ UNCHANGED <<phase, BME280_AVAILABLE, config, sensor, running, pc,
                   reading, hpc, hreading, conn, db, now>>

\* Python's a // b for b # 0: the quotient rounded down.
FloorDiv(a, b) == IF b > 0 THEN a \div b ELSE (0 - a) \div (0 - b)

\* The limit counted with 3600 seconds to the hour.
HistoryLimitSeconds(hours) == FloorDiv(hours * 3600, config.read_interval)

\* limit = hours * 60 // self.config['sensor']['read_interval']
HistoryLimit(hours) == FloorDiv(hours * 60, config.read_interval)

\* /api/history?hours=...; the division by a read_interval of 0 raises
\* ZeroDivisionError.
api_history(hours) ==
    /\ phase = "up"
    /\ IF hours # 1 /\ config.read_interval = 0
       THEN ret' = ServerError("api_history")
       ELSE \E data \in (IF hours = 1 THEN GetLastHourRows
                         ELSE GetRecentRows(HistoryLimit(hours))) :
              ret' = [op |-> "api_history", hours |-> hours,
                      success |-> TRUE, rows |-> data]
    /\ UNCHANGED <<phase, BME280_AVAILABLE, config, sensor, running, pc,
                   reading, hpc, hreading, conn, db, now>>

\* Time passes: datetime.now() returns a later instant.
clock_advances(t) ==
    /\ TimeLess(now, t)
    /\ now' = t
    /\ ret' = NoCall
    /\ UNCHANGED <<phase, BME280_AVAILABLE, config, sensor, running, pc,
                   reading, hpc, hreading, conn, db>>

\* The naive local time datetime.now() returns is set back (the end of
\* daylight saving time, a clock correction).
clock_set_back(t) ==
    /\ TimeLess(t, now)
    /\ now' = t
    /\ ret' = NoCall
    /\ UNCHANGED <<phase, BME280_AVAILABLE, config, sensor, running, pc,
                   reading, hpc, hreading, conn, db>>

(* ---- the program: startup, sampling threads, request handlers, all   ---- *)
(* ---- interleaved, at one instant of the wall clock (the passing of   ---- *)
(* ---- time is part of StoreSpec)                                      ---- *)

Next ==
    \/ \E o \in ImportOutcomes : import_bme280(o)
    \/ \E c \in BOOLEAN : SensorMonitor_init(MissingFile, c)
    \/ start
    \/ stop
    \/ \E t \in Threads : thread_while(t)
    \/ \E t \in Threads : thread_read(t)
    \/ \E t \in Threads : thread_read_end(t)
    \/ \E t \in Threads : thread_sleep(t)
    \/ \E h \in Handlers : api_current(h)
    \/ \E h \in Handlers : api_current_read_end(h)
    \/ \E h \in Handlers : api_current_save(h, FALSE)
    \/ \E h \in Handlers : api_current_commit(h, FALSE)
    \/ \E h \in Handlers : api_current_probe(h)
    \/ \E h \in Handlers : api_current_probe_end(h)
    \/ \E h \in Handlers : api_health(h)
    \/ \E h \in Handlers : api_health_probe_end(h)

Spec == Init /\ [][Next]_vars

(* ---- the sampling threads alone: startup, start, stop and the threads, ---- *)
(* ---- each thread scheduled again and again, its read and its sleep    ---- *)
(* ---- returning                                                        ---- *)

ThreadStep(t) ==
    thread_while(t) \/ thread_read(t) \/ thread_read_end(t) \/ thread_sleep(t)

LoopNext ==
    \/ \E o \in ImportOutcomes : import_bme280(o)
    \/ \E c \in BOOLEAN : SensorMonitor_init(MissingFile, c)
    \/ start
    \/ stop
    \/ \E t \in Threads : ThreadStep(t)

LoopSpec ==
    Init /\ [][LoopNext]_vars /\ \A t \in Threads : WF_vars(ThreadStep(t))

(* ---- the store and /api/history called one after the other, with the ---- *)
(* ---- wall clock moving between the calls                            ---- *)

StoreInit ==
    /\ phase = "up"
    /\ BME280_AVAILABLE = FALSE
    /\ config \in SensorConfigs
    /\ sensor = "None"
    /\ running = FALSE
    /\ pc = [t \in Threads |-> "unborn"]
    /\ reading = [t \in Threads |-> Unset]
    /\ hpc = [h \in Handlers |-> "idle"]
    /\ hreading = [h \in Handlers |-> Unset]
    /\ conn = [h \in Handlers |-> NoRow]
    /\ db = <<>>
    /\ now = StartInstant
    /\ ret = NoCall

StoreNext ==
    \/ \E raw \in RawSamples :
         save_reading(raw.temperature, raw.humidity, raw.pressure)
    \/ \E limit \in 0..MaxRows : get_recent(limit)
    \/ get_last_hour
    \/ \E hours \in 0..MaxHours : api_history(hours)
    \/ \E t \in ClockValues : clock_advances(t)
    \/ \E t \in ClockValues : clock_set_back(t)

StoreSpec == StoreInit /\ [][StoreNext]_vars

(* ---- the request handlers of a monitor that is up, with emulated or ---- *)
(* ---- real sensor and a store that accepts every insert, the wall     ---- *)
(* ---- clock moving forward between their steps                        ---- *)

RequestInit ==
    /\ phase = "up"
    /\ sensor \in {"None", "BME280"}
    /\ BME280_AVAILABLE = (sensor = "BME280")
    /\ config = DefaultSensorConfig
    /\ running = FALSE
    /\ pc = [t \in Threads |-> "unborn"]
    /\ reading = [t \in Threads |-> Unset]
    /\ hpc = [h \in Handlers |-> "idle"]
    /\ hreading = [h \in Handlers |-> Unset]
    /\ conn = [h \in Handlers |-> NoRow]
    /\ db = <<>>
    /\ now = StartInstant
    /\ ret = NoCall

RequestNext ==
    \/ \E h \in Handlers : api_current(h)
    \/ \E h \in Handlers : api_current_read_end(h)
    \/ \E h \in Handlers : api_current_save(h, FALSE)
    \/ \E h \in Handlers : api_current_commit(h, FALSE)
    \/ \E h \in Handlers : api_current_probe(h)
    \/ \E h \in Handlers : api_current_probe_end(h)
    \/ \E h \in Handlers : api_health(h)
    \/ \E h \in Handlers : api_health_probe_end(h)
    \/ \E t \in ClockValues : clock_advances(t)

RequestSpec == RequestInit /\ [][RequestNext]_vars

(* ---- /api/current against a store whose INSERT or commit may raise, ---- *)
(* ---- with queries running between the steps of the insert           ---- *)

AppendNext ==
    \/ \E h \in Handlers : api_current(h)
    \/ \E h \in Handlers : api_current_read_end(h)
    \/ \E h \in Handlers, raises \in BOOLEAN : api_current_save(h, raises)
    \/ \E h \in Handlers, raises \in BOOLEAN : api_current_commit(h, raises)
    \/ \E h \in Handlers : api_current_probe(h)
    \/ \E h \in Handlers : api_current_probe_end(h)
    \/ \E limit \in 0..MaxRows : get_recent(limit)
    \/ get_last_hour

AppendSpec == RequestInit /\ [][AppendNext]_vars

(* ---- the operations of a monitor that is up, as its callers reach   ---- *)
(* ---- them: start, stop, /api/current (the one caller of             ---- *)
(* ---- save_reading) with a store that may raise, /api/health and     ---- *)
(* ---- /api/history (the one caller of get_last_hour and get_recent)  ---- *)

LogNext ==
    \/ start
    \/ stop
    \/ \E h \in Handlers : api_current(h)
    \/ \E h \in Handlers : api_current_read_end(h)
    \/ \E h \in Handlers, raises \in BOOLEAN : api_current_save(h, raises)
    \/ \E h \in Handlers, raises \in BOOLEAN : api_current_commit(h, raises)
    \/ \E h \in Handlers : api_current_probe(h)
    \/ \E h \in Handlers : api_current_probe_end(h)
    \/ \E h \in Handlers : api_health(h)
    \/ \E h \in Handlers : api_health_probe_end(h)
    \/ \E hours \in 0..MaxHours : api_history(hours)

LogSpec == RequestInit /\ [][LogNext]_vars

(* ---- startup with whatever is found at the configuration path, then ---- *)
(* ---- the request handlers                                           ---- *)

ConfigNext ==
    \/ \E o \in {"ok", "NotImplementedError"} : import_bme280(o)
    \/ \E file \in ConfigFiles, c \in BOOLEAN : SensorMonitor_init(file, c)
    \/ \E h \in Handlers : api_current(h)
    \/ \E h \in Handlers : api_current_read_end(h)
    \/ \E h \in Handlers : api_current_save(h, FALSE)
    \/ \E h \in Handlers : api_current_commit(h, FALSE)
    \/ \E h \in Handlers : api_current_probe(h)
    \/ \E h \in Handlers : api_current_probe_end(h)
    \/ \E h \in Handlers : api_health(h)
    \/ \E h \in Handlers : api_health_probe_end(h)
    \/ \E hours \in 0..MaxHours : api_history(hours)

ConfigSpec == Init /\ [][ConfigNext]_vars

(* ---- read() called again and again: the emulation at every hour of   ---- *)
(* ---- the day, the BME280 under every combination of offsets          ---- *)

SensorInit ==
    /\ phase = "up"
    /\ \/ sensor = "None" /\ config = DefaultSensorConfig
          /\ now \in HourInstants
       \/ sensor = "BME280" /\ config \in OffsetConfigs
          /\ now = StartInstant
    /\ BME280_AVAILABLE = (sensor = "BME280")
    /\ running = FALSE
    /\ pc = [t \in Threads |-> "unborn"]
    /\ reading = [t \in Threads |-> Unset]
    /\ hpc = [h \in Handlers |-> "idle"]
    /\ hreading = [h \in Handlers |-> Unset]
    /\ conn = [h \in Handlers |-> NoRow]
    /\ db = <<>>
    /\ ret = NoCall

SensorNext ==
    \/ \E j \in MockJitterRange : read_emulated(j)
    \/ \E raw \in RawRange, raises \in BOOLEAN : read_hardware(raw, raises)

SensorSpec == SensorInit /\ [][SensorNext]_vars

(* ---- the sampling threads of a monitor whose start() is called only  ---- *)
(* ---- while it is stopped                                             ---- *)

start_when_stopped == ~running /\ start

RestartNext ==
    \/ \E o \in ImportOutcomes : import_bme280(o)
    \/ \E c \in BOOLEAN : SensorMonitor_init(MissingFile, c)
    \/ start_when_stopped
    \/ stop
    \/ \E t \in Threads : ThreadStep(t)

RestartSpec == Init /\ [][RestartNext]_vars

(***************************************************************************)
(* The claims                                                              *)
(***************************************************************************)

Min(a, b) == IF a < b THEN a ELSE b

\* C1: while the loop is Running, every cycle of the sampling thread whose
\* read() succeeds appends that reading to the store.
C1_SuccessfulCycleAppends ==
    [][ \A t \in Threads :
          (pc[t] \in {"read", "hw"} /\ pc'[t] = "sleep" /\ Truthy(reading'[t]))
            => Len(db') = Len(db) + 1 ]_vars

\* C2: start() while the loop is already Running is a no-op: it begins no
\* second background activity.
C2_StartWhileRunningIsNoOp ==
    [][ running => \A t \in Threads : pc[t] = "unborn" => pc'[t] = "unborn" ]_vars

\* C3: once stopped, a sampling thread begins no new cycle: it passes the
\* loop test only while running is set, a thread that tests the flag after
\* stop() returns, at most its cycle in flight completes, and a thread that
\* has returned never runs again; and unless start() is called again, every
\* thread does cease.
C3_NoNewCycleAfterStop ==
    /\ [][ \A t \in Threads :
            /\ (pc[t] # "read" /\ pc'[t] = "read")
                 => (running /\ pc[t] = "while")
            /\ (pc[t] = "while" /\ pc'[t] # "while" /\ ~running)
                 => pc'[t] = "done"
            /\ (pc[t] \in {"sleep", "while"} /\ ~running /\ ~running')
                 => pc'[t] \notin {"read", "hw"}
            /\ pc[t] = "done" => pc'[t] = "done" ]_vars
    /\ \A t \in Threads :
         [](~running => <>(running \/ pc[t] \in {"unborn", "done"}))

C3_Witness ==
    /\ ~running
    /\ \E t \in Threads : pc[t] = "done"

\* C4: a failed read() is contained in its cycle: the thread goes on to its
\* sleep and to the next test of the loop, a sampling thread ends only by
\* finding running false at the loop test, and after a failed read the
\* thread does reach its next read unless it is stopped.
C4_FailedCycleContained ==
    /\ [][ \A t \in Threads :
            /\ (pc[t] = "hw" /\ pc'[t] # "hw") => pc'[t] = "sleep"
            /\ (pc[t] = "sleep" /\ pc'[t] # "sleep") => pc'[t] = "while"
            /\ (pc[t] = "while" /\ pc'[t] # "while" /\ running)
                 => pc'[t] = "read"
            /\ (pc[t] # "done" /\ pc'[t] = "done")
                 => (pc[t] = "while" /\ ~running) ]_vars
    /\ \A t \in Threads :
         []((pc[t] = "sleep" /\ reading[t] = NoReading)
              => <>(pc[t] \in {"read", "done"}))

\* A thread whose last read failed has passed the loop test again.
C4_Witness ==
    \E t \in Threads : pc[t] = "read" /\ reading[t] = NoReading

\* C5: hardware absence is never fatal: the program gets past its imports and
\* the construction of the sensor, whatever the import of the hardware
\* library does.
C5_HardwareAbsenceNotFatal == phase # "crashed"

\* C6: at most one thread or handler is inside a transaction with the
\* hardware at any time.
C6_HardwareAccessExclusive == Cardinality(BusUsers) <= 1

\* C7: get_recent(1) right after save_reading returns exactly the row just
\* inserted, whatever its timestamp.
C7_RecentAfterAppend ==
    [][ (ret.op = "save_reading" /\ ret'.op = "get_recent" /\ ret'.limit = 1)
          => ret'.rows = << db[Len(db)] >> ]_vars

\* C8: the window query returns exactly the rows whose timestamp is at or
\* after since (one hour before now), earliest first.
C8_WindowAtOrAfter ==
    ret.op = "get_last_hour" =>
      LET rows == ret.rows
          want == { i \in 1..Len(db) :
                      db[i].timestamp = HourAgo
                        \/ TextLess(HourAgo, db[i].timestamp) }
      IN /\ { rows[k].id : k \in 1..Len(rows) } = { db[i].id : i \in want }
         /\ Len(rows) = Cardinality(want)
         /\ \A k, l \in 1..Len(rows) :
              k < l => ~TextLess(rows[l].timestamp, rows[k].timestamp)

\* C9: get_recent(limit) returns min(limit, number of rows) rows of the
\* table, all different, none with a timestamp before that of a row left
\* out, most recent first.
C9_RecentBounded ==
    ret.op = "get_recent" =>
      LET rows == ret.rows
          n == Len(rows)
      IN /\ n = Min(ret.limit, Len(db))
         /\ \A k \in 1..n : \E i \in 1..Len(db) : db[i] = rows[k]
         /\ \A k, l \in 1..n :
              k < l => /\ rows[k].id # rows[l].id
                       /\ ~TextLess(rows[k].timestamp, rows[l].timestamp)
         /\ \A i \in 1..Len(db) :
              (\A k \in 1..n : rows[k].id # db[i].id)
                => \A k \in 1..n :
                     ~TextLess(rows[k].timestamp, db[i].timestamp)

\* Two of three rows with different timestamps were returned.
C9_Witness ==
    /\ ret.op = "get_recent"
    /\ ret.limit = 2
    /\ Len(db) = 3
    /\ Len(ret.rows) = 2
    /\ TextLess(ret.rows[2].timestamp, ret.rows[1].timestamp)
    /\ \E i \in 1..3 : TextLess(db[i].timestamp, ret.rows[2].timestamp)

\* Measurements at t - 90 min, t - 30 min and (about) t - 5 min, asked at t.
C10_Scenario ==
    /\ now = [sec |-> 9000, us |-> 0]
    /\ Len(db) = 3
    /\ db[1].timestamp = IsoFormat([sec |-> 3600, us |-> 0])
    /\ db[2].timestamp = IsoFormat([sec |-> 7200, us |-> 0])
    /\ db[3].timestamp = IsoFormat([sec |-> 8700, us |-> 500000])

\* C10: history(1) is what the window query of one hour before now returns
\* (of measurements at t - 90 min, t - 30 min, t - 5 min only the latter
\* two); history(hours) for hours > 1 is what get_recent returns for the
\* limit hours * 60 / read_interval, rounded down.
C10_HistoryDispatch ==
    (ret.op = "api_history" /\ ret.hours >= 1) =>
      IF ret.hours = 1
      THEN /\ ret.rows \in GetLastHourRows
           /\ C10_Scenario => ret.rows = << db[2], db[3] >>
      ELSE /\ ret.rows \in GetRecentRows((ret.hours * 60) \div config.read_interval)
           /\ Len(ret.rows) =
                Min((ret.hours * 60) \div config.read_interval, Len(db))

C10_Witness ==
    /\ ret.op = "api_history"
    /\ ret.hours = 1
    /\ C10_Scenario
    /\ ret.rows = << db[2], db[3] >>

\* C11: /api/current appends exactly one row, with the values of the reading,
\* when its read() returned a reading, and leaves the table as it is when
\* read() returned None; in both cases its body carries what read() returned
\* and the connected flag.
C11_CurrentReadingAppends ==
    [][ \A h \in Handlers :
          /\ (hpc[h] = "cur_save" /\ hpc'[h] # "cur_save")
               => /\ db' = db
                  /\ hpc'[h] = IF Truthy(hreading[h]) THEN "cur_commit"
                               ELSE "cur_probe"
          /\ (hpc[h] = "cur_commit" /\ hpc'[h] # "cur_commit")
               => /\ hpc'[h] = "cur_probe"
                  /\ Truthy(hreading[h])
                  /\ Len(db') = Len(db) + 1
                  /\ SubSeq(db', 1, Len(db)) = db
                  /\ db'[Len(db')].temperature = hreading[h].temperature
                  /\ db'[Len(db')].humidity = hreading[h].humidity
                  /\ db'[Len(db')].pressure = hreading[h].pressure
          /\ (hpc[h] \notin {"cur_save", "cur_commit"} /\ hpc'[h] # hpc[h])
               => db' = db
          /\ (hpc[h] = "cur_probe" /\ hpc'[h] # "cur_probe")
               => hpc'[h] \in {"idle", "cur_probe_hw"}
          /\ (hpc[h] \in {"cur_probe", "cur_probe_hw"} /\ hpc'[h] = "idle")
               => /\ ret'.op = "api_current"
                  /\ ret'.success
                  /\ ret'.stats = hreading[h]
                  /\ ret'.stats # Unset
                  /\ ret'.sensor_connected \in BOOLEAN ]_vars

\* A request whose read failed has returned None and its flag, after an
\* earlier request appended its reading.
C11_Witness ==
    /\ ret.op = "api_current"
    /\ ret.stats = NoReading
    /\ Len(db) = 1
    /\ db[1].temperature \in { ReadHardware(now, raw).temperature :
                                 raw \in RawSamples }

CompleteRow(r) ==
    /\ DOMAIN r = {"id", "timestamp", "temperature", "humidity", "pressure"}
    /\ r.id >= 1
    /\ Len(r.timestamp) >= 11
    /\ r.temperature \in Int /\ r.humidity \in Int /\ r.pressure \in Int

\* C12: the append is all or nothing: the table changes only by a commit
\* that returns, which adds the one complete row of the connection; an INSERT
\* or a commit that raises ends its caller with the exception and leaves the
\* table unchanged; and every query, also one that runs while a connection
\* holds an uncommitted row, returns complete rows of the table only, all of
\* them when the limit allows.
C12_AppendAllOrNothing ==
    /\ [][ /\ db' # db
             => \E h \in Handlers :
                  /\ hpc[h] = "cur_commit" /\ hpc'[h] = "cur_probe"
                  /\ conn[h].id = Len(db) + 1
                  /\ CompleteRow(conn[h])
                  /\ db' = Append(db, conn[h])
           /\ \A h \in Handlers :
                (hpc[h] \in {"cur_save", "cur_commit"} /\ hpc'[h] = "idle")
                  => /\ ret' = ServerError("api_current")
                     /\ db' = db
                     /\ conn'[h] = NoRow ]_vars
    /\ [](ret.op \in {"get_recent", "get_last_hour"} =>
            /\ \A k \in 1..Len(ret.rows) :
                 /\ CompleteRow(ret.rows[k])
                 /\ \E i \in 1..Len(db) : db[i] = ret.rows[k]
            /\ (ret.op = "get_recent" /\ ret.limit >= Len(db))
                 => \A i \in 1..Len(db) :
                      \E k \in 1..Len(ret.rows) : ret.rows[k] = db[i])

\* A query returned the one committed row while a handler's connection held
\* a second, uncommitted one.
C12_Witness ==
    /\ ret.op = "get_recent"
    /\ Len(db) = 1
    /\ ret.rows = << db[1] >>
    /\ \E h \in Handlers : conn[h] # NoRow /\ conn[h].id = 2

\* C14 as the code has it: is_connected() is true exactly when there is a
\* hardware handle and the probe of one field goes through; with the
\* emulation (no handle) it is false, and so is the flag of every body.
C14_ConnectedOnlyByProbe ==
    /\ \A p \in BOOLEAN : is_connected(p) = (sensor = "BME280" /\ ~p)
    /\ (ret.op \in {"api_health", "api_current"} /\ sensor = "None")
         => ~ret.sensor_connected

\* A request answered from the emulation: synthetic values, flag false.
C14_Witness ==
    /\ ret.op = "api_current"
    /\ sensor = "None"
    /\ Truthy(ret.stats)
    /\ ~ret.sensor_connected

\* C14 as stated: with the emulation is_connected() is always true.
C14_EmulationAlwaysConnected ==
    (ret.op \in {"api_health", "api_current"} /\ sensor = "None")
      => ret.sensor_connected

\* C17: the table is append-only: a step either leaves it as it is or is the
\* return of a successful append, which adds one row after the existing
\* ones, with an id greater than every existing id; rows once in the table
\* are never changed or removed, ids are unique and increase with insertion.
C17_LogAppendOnly ==
    /\ [][ \/ db' = db
           \/ /\ Len(db') = Len(db) + 1
              /\ SubSeq(db', 1, Len(db)) = db
              /\ \A i \in 1..Len(db) : db[i].id < db'[Len(db')].id
              /\ \E h \in Handlers :
                   hpc[h] = "cur_commit" /\ hpc'[h] = "cur_probe" ]_vars
    /\ [](\A i, j \in 1..Len(db) : i < j => db[i].id < db[j].id)

\* Three appends have been made and a history query has returned since.
C17_Witness ==
    /\ Len(db) = MaxRows
    /\ ret.op = "api_history"
    /\ ret.success
    /\ Len(ret.rows) = MaxRows

\* C18: the row stored for a reading carries the reading's temperature,
\* humidity and pressure, and the reading's capture timestamp.
C18_StoredCarriesReading ==
    [][ \A h \in Handlers :
          (hpc[h] = "cur_commit" /\ hpc'[h] = "cur_probe")
            => /\ db'[Len(db')].temperature = hreading[h].temperature
               /\ db'[Len(db')].humidity = hreading[h].humidity
               /\ db'[Len(db')].pressure = hreading[h].pressure
               /\ db'[Len(db')].timestamp = IsoFormat(hreading[h].timestamp)
      ]_vars

\* C13: whatever is found at the configuration path, the monitor comes up,
\* and with a sample interval > 0: an invalid configuration is replaced by
\* the built-in defaults.
C13_InvalidConfigFallsBack ==
    /\ phase \in {"import", "construct", "up"}
    /\ phase = "up" => config.read_interval > 0

\* C15: the emulated read() returns a reading for every hour of the day and
\* every draw, with a temperature within 4 degrees of the base of 22: within
\* half a degree of 19 from 2 to 6 o'clock, of 25 from 12 to 16 o'clock and
\* of 22 at the other hours.
C15_MockWithinBounds ==
    (ret.op = "read" /\ sensor = "None") =>
      LET hour == (now.sec \div 3600) % 24
          tier == IF 2 <= hour /\ hour <= 6 THEN 1900
                  ELSE IF 12 <= hour /\ hour <= 16 THEN 2500
                  ELSE 2200
      IN /\ Truthy(ret.value)
         /\ 2200 - 400 <= ret.value.temperature
         /\ ret.value.temperature <= 2200 + 400
         /\ tier - 50 <= ret.value.temperature
         /\ ret.value.temperature <= tier + 50

\* The coldest emulated reading: 18.5 degrees at 4 o'clock.
C15_Witness ==
    /\ ret.op = "read"
    /\ sensor = "None"
    /\ now = [sec |-> 4 * 3600, us |-> 0]
    /\ ret.value.temperature = 1850

\* C16: a hardware read() that succeeds returns, for each of temperature,
\* humidity and pressure, the register value plus that field's own offset.
C16_HardwareAddsOffsets ==
    (ret.op = "read" /\ sensor = "BME280" /\ Truthy(ret.value)) =>
      /\ ret.value.temperature = ret.raw.temperature + config.temperature_offset
      /\ ret.value.humidity = ret.raw.humidity + config.humidity_offset
      /\ ret.value.pressure = ret.raw.pressure + config.pressure_offset

\* A reading under three different offsets.
C16_Witness ==
    /\ ret.op = "read"
    /\ sensor = "BME280"
    /\ config.temperature_offset = -150
    /\ config.humidity_offset = 25
    /\ config.pressure_offset = 0
    /\ ret.raw.humidity = 4000
    /\ Truthy(ret.value)
    /\ ret.value.humidity = 4025

\* C19: a sampling thread that wakes from its sleep after stop() and a later
\* start() begins no new cycle: a thread that has slept passes the loop test
\* only while no thread has been started after it.
C19_OldThreadTerminates ==
    [][ \A t \in Threads :
          (pc[t] = "while" /\ reading[t] # Unset /\ pc'[t] = "read")
            => \A u \in Threads : u > t => pc[u] = "unborn" ]_vars

\* C20: for the same table, all timestamps different and none after now, and
\* the same instant, every row returned by history(h1) is returned by
\* history(h2) when 1 <= h1 <= h2.
C20_HistoryMonotone ==
    [][ ( /\ ret.op = "api_history" /\ ret'.op = "api_history"
          /\ 1 <= ret.hours /\ ret.hours <= ret'.hours
          /\ \A i, j \in 1..Len(db) :
               i # j => db[i].timestamp # db[j].timestamp
          /\ \A i \in 1..Len(db) :
               ~TextLess(IsoFormat(now), db[i].timestamp) )
          => \A k \in 1..Len(ret.rows) :
               \E l \in 1..Len(ret'.rows) : ret'.rows[l] = ret.rows[k] ]_vars

====
